---- MODULE Spec2Model ----
(***************************************************************************)
(* Inventory ledger of GMinventory (src/app.py): the /add, /remove and     *)
(* /adjust handlers running as concurrent requests against PostgreSQL.     *)
(*                                                                         *)
(* Each handler opens its own psycopg2 connection, so each request is one  *)
(* transaction at PostgreSQL's default isolation level, READ COMMITTED:    *)
(*   - a SELECT sees the rows committed when the statement starts;         *)
(*   - UPDATE and INSERT .. ON CONFLICT DO UPDATE lock the row until the   *)
(*     transaction ends, wait for a concurrent holder, and then act on the *)
(*     latest committed version of the row;                                *)
(*   - writes become visible to other connections at conn.commit();        *)
(*   - a connection dropped without commit is rolled back;                 *)
(*   - a SERIAL value is taken when the row is inserted and is not given   *)
(*     back by a rollback; CURRENT_TIMESTAMP is the transaction's start.   *)
(* Quantities are modelled as integers (NUMERIC in the schema).            *)
(***************************************************************************)
EXTENDS Integers, Sequences, FiniteSets, TLC

LOW_STOCK_THRESHOLD == 50

\* Bound on the number of requests issued in one behaviour.
MaxCalls == 3

\* Concurrent requests (each one a logged-in session).
Procs == {"u1", "u2"}

\* request.form values of /add: quantity is float(...) and may be negative.
AddForms ==
  { [op |-> "ADD", item_number |-> "A1", lot |-> "L1", name |-> "Gelatin",
     quantity |-> 60, unit |-> "kg", supplier |-> "Acme", exp |-> "2027-01"],
    [op |-> "ADD", item_number |-> "A1", lot |-> "L1", name |-> "Gelatin B",
     quantity |-> 60, unit |-> "g", supplier |-> "", exp |-> "2028-01"],
    [op |-> "ADD", item_number |-> "A1", lot |-> "L1", name |-> "Gelatin",
     quantity |-> -10, unit |-> "kg", supplier |-> "Acme", exp |-> "2027-01"],
    [op |-> "ADD", item_number |-> "A1", lot |-> "L2", name |-> "Gelatin",
     quantity |-> 60, unit |-> "kg", supplier |-> "Acme", exp |-> "2027-06"] }

\* request.form values of /remove: quantity is int(...) and may be negative.
RemoveForms ==
  { [op |-> "REMOVE", item_number |-> "A1", lot |-> "L1", quantity |-> q] :
      q \in {-10, 10, 50} }
  \cup
  { [op |-> "REMOVE", item_number |-> "A1", lot |-> "L2", quantity |-> 50] }

\* request.form values of /adjust: new_quantity is int(...) and may be negative.
AdjustForms ==
  { [op |-> "ADJUST", item_number |-> "A1", lot |-> "L1", quantity |-> -10,
     unit |-> "kg", description |-> ""],
    [op |-> "ADJUST", item_number |-> "A1", lot |-> "L1", quantity |-> 70,
     unit |-> "g", description |-> "recount"],
    [op |-> "ADJUST", item_number |-> "A1", lot |-> "L2", quantity |-> 70,
     unit |-> "kg", description |-> ""] }

\* The (item_number, lot) pairs the requests name.
Keys ==
  { <<f.item_number, f.lot>> : f \in AddForms \cup RemoveForms \cup AdjustForms }

VARIABLES
  inventory,   \* committed inventory table: key -> row, or NoRow
  history,     \* committed history table: set of rows
  nextId,      \* the sequence behind history.id
  clock,       \* database clock, read at the start of a writing transaction
  tx,          \* per request: position in the handler, locals, pending writes
  response,    \* per session: outcome of its latest request
  calls,       \* number of requests issued so far
  notified,    \* calls of send_low_stock_email, in order
  priorOf,     \* ghost: history id -> quantity of the row just before the write
  sumAdd,      \* ghost: key -> sum of the deltas of committed Adds
  sumRemove,   \* ghost: key -> sum of the deltas of committed Removes
  okCalls      \* ghost: key -> number of committed mutating requests

vars == <<inventory, history, nextId, clock, tx, response, calls, notified,
          priorOf, sumAdd, sumRemove, okCalls>>

ghosts == <<priorOf, sumAdd, sumRemove, okCalls>>

NoRow == [found |-> FALSE]
NoForm == [op |-> "none"]

Idle ==
  [pc |-> "idle", form |-> NoForm, key |-> <<"", "">>, row |-> NoRow,
   new_qty |-> 0, remaining_qty |-> 0, write |-> NoRow, hist |-> {},
   ts |-> 0, prior |-> 0]

Init ==
  /\ inventory = [k \in Keys |-> NoRow]
  /\ history = {}
  /\ nextId = 1
  /\ clock = 1
  /\ tx = [p \in Procs |-> Idle]
  /\ response = [p \in Procs |-> "none"]
  /\ calls = 0
  /\ notified = <<>>
  /\ priorOf = <<>>
  /\ sumAdd = [k \in Keys |-> 0]
  /\ sumRemove = [k \in Keys |-> 0]
  /\ okCalls = [k \in Keys |-> 0]

----------------------------------------------------------------------------
\* Faulty variant of HoldsLock: the SELECT already takes a shared lock on the
\* row, which the UPDATE of another transaction has to wait for.
HoldsLockFromSelect(q, k) ==
  tx[q].key = k /\ tx[q].pc \in {"selected", "updated", "readback", "logged"}

\* Row-level lock: held by a transaction from its write of the row until it
\* commits or rolls back.
HoldsLock(q, k) ==
  tx[q].key = k /\ tx[q].pc \in {"updated", "readback", "logged"}

RowLockFree(p, k) == \A q \in Procs \ {p} : ~HoldsLock(q, k)

\* SELECT ... FROM inventory WHERE item_number = %s AND lot = %s
SelectRow(k) == inventory[k]

\* INSERT INTO history (...): id from the sequence, timestamp from the
\* transaction start.
HistoryRow(p, k, change, remaining, unit, action_type) ==
  [id |-> nextId, item_number |-> k[1], lot |-> k[2], change |-> change,
   remaining |-> remaining, unit |-> unit, action_type |-> action_type,
   username |-> p, timestamp |-> tx[p].ts]

\* Faulty variant of CommitWrites: the history table keeps one row per key,
\* the new row replacing the key's earlier ones.
CommitWritesReplace(p) ==
  /\ inventory' = [inventory EXCEPT ![tx[p].key] = tx[p].write]
  /\ history' =
       {h \in history : <<h.item_number, h.lot>> # tx[p].key} \cup tx[p].hist
  /\ priorOf' = priorOf @@ [i \in {h.id : h \in tx[p].hist} |-> tx[p].prior]

\* Transaction end: conn.commit() publishes the pending inventory row and
\* history rows together; the ghost prior quantity is recorded per history id.
CommitWrites(p) ==
  /\ inventory' = [inventory EXCEPT ![tx[p].key] = tx[p].write]
  /\ history' = history \cup tx[p].hist
  /\ priorOf' = priorOf @@ [i \in {h.id : h \in tx[p].hist} |-> tx[p].prior]

----------------------------------------------------------------------------
\* /add

\* Faulty variant of UpsertRow: DO UPDATE SET quantity = excluded.quantity.
UpsertRowOverwrite(old, f) ==
  [found |-> TRUE, name |-> f.name, quantity |-> f.quantity,
   unit |-> f.unit, supplier |-> f.supplier, exp |-> f.exp]

\* Faulty variant of UpsertRow: on a conflict only the quantity is updated,
\* the descriptive columns keep their old values.
UpsertRowKeepsDescription(old, f) ==
  IF old.found
    THEN [old EXCEPT !.quantity = old.quantity + f.quantity]
    ELSE [found |-> TRUE, name |-> f.name, quantity |-> f.quantity,
          unit |-> f.unit, supplier |-> f.supplier, exp |-> f.exp]

\* The row left by INSERT ... ON CONFLICT (item_number, lot) DO UPDATE.
UpsertRow(old, f) ==
  [found |-> TRUE, name |-> f.name,
   quantity |-> IF old.found THEN old.quantity + f.quantity ELSE f.quantity,
   unit |-> f.unit, supplier |-> f.supplier, exp |-> f.exp]

\* Faulty variant of AddRemaining: the delta is logged as the remaining
\* quantity.
AddRemainingDelta(remaining_row, quantity) == quantity

\* remaining_qty = remaining_row[0] if remaining_row else quantity
AddRemaining(remaining_row, quantity) ==
  IF remaining_row.found THEN remaining_row.quantity ELSE quantity

AddCall(p) ==
  /\ tx[p].pc = "idle"
  /\ calls < MaxCalls
  /\ \E f \in AddForms :
       tx' = [tx EXCEPT ![p] =
                [Idle EXCEPT !.pc = "called", !.form = f,
                             !.key = <<f.item_number, f.lot>>]]
  /\ calls' = calls + 1
  /\ response' = [response EXCEPT ![p] = "pending"]
  /\ UNCHANGED <<inventory, history, nextId, clock, notified, ghosts>>

\* The upsert is the transaction's first statement; it waits while another
\* transaction holds the row (or an uncommitted insert of the same key).
AddUpsert(p) ==
  /\ tx[p].pc = "called"
  /\ tx[p].form.op = "ADD"
  /\ RowLockFree(p, tx[p].key)
  /\ LET old == inventory[tx[p].key] IN
       tx' = [tx EXCEPT ![p] =
                [@ EXCEPT !.pc = "updated", !.ts = clock,
                          !.write = UpsertRow(old, tx[p].form),
                          !.prior = IF old.found THEN old.quantity ELSE 0]]
  /\ clock' = clock + 1
  /\ UNCHANGED <<response, inventory, history, nextId, calls, notified,
                 ghosts>>

\* SELECT quantity FROM inventory ...: the transaction sees its own write.
AddSelect(p) ==
  /\ tx[p].pc = "updated"
  /\ tx[p].form.op = "ADD"
  /\ tx' = [tx EXCEPT ![p] =
              [@ EXCEPT !.pc = "readback", !.row = tx[p].write,
                        !.remaining_qty =
                           AddRemaining(tx[p].write, tx[p].form.quantity)]]
  /\ UNCHANGED <<response, inventory, history, nextId, clock, calls,
                 notified, ghosts>>

\* Faulty variant of AddInsertHistory: the history INSERT is left out.
AddSkipHistory(p) ==
  /\ tx[p].pc = "readback"
  /\ tx[p].form.op = "ADD"
  /\ tx' = [tx EXCEPT ![p] = [@ EXCEPT !.pc = "logged"]]
  /\ UNCHANGED <<response, inventory, history, nextId, clock, calls, notified,
                 ghosts>>

AddInsertHistory(p) ==
  /\ tx[p].pc = "readback"
  /\ tx[p].form.op = "ADD"
  /\ tx' = [tx EXCEPT ![p] =
              [@ EXCEPT !.pc = "logged",
                        !.hist = @ \cup
                          {HistoryRow(p, tx[p].key, tx[p].form.quantity,
                                      tx[p].remaining_qty, tx[p].form.unit,
                                      "ADD")}]]
  /\ nextId' = nextId + 1
  /\ UNCHANGED <<response, inventory, history, clock, calls, notified,
                 ghosts>>

AddCommit(p) ==
  /\ tx[p].pc = "logged"
  /\ tx[p].form.op = "ADD"
  /\ CommitWrites(p)
  /\ sumAdd' = [sumAdd EXCEPT ![tx[p].key] = @ + tx[p].form.quantity]
  /\ okCalls' = [okCalls EXCEPT ![tx[p].key] = @ + 1]
  /\ tx' = [tx EXCEPT ![p] = Idle]
  /\ response' = [response EXCEPT ![p] = "OK"]
  /\ UNCHANGED <<nextId, clock, calls, notified, sumRemove>>

----------------------------------------------------------------------------
\* /remove

\* Faulty variant of Insufficient: the floor check is missing.
InsufficientUnchecked(qty_remove, current_qty) == FALSE

\* if qty_remove > current_qty
Insufficient(qty_remove, current_qty) == qty_remove > current_qty

\* new_qty = current_qty - qty_remove
RemoveNewQty(current_qty, qty_remove) == current_qty - qty_remove

\* Faulty variant of IsLowStock: the threshold itself counts as low.
IsLowStockInclusive(new_qty) == new_qty <= LOW_STOCK_THRESHOLD

\* if new_qty < LOW_STOCK_THRESHOLD
IsLowStock(new_qty) == new_qty < LOW_STOCK_THRESHOLD

\* What send_low_stock_email can do with a call: skip it (SMTP settings
\* incomplete), deliver it, or catch a delivery error.
EmailOutcomes == {"skipped", "sent", "failed"}

RemoveCall(p) ==
  /\ tx[p].pc = "idle"
  /\ calls < MaxCalls
  /\ \E f \in RemoveForms :
       tx' = [tx EXCEPT ![p] =
                [Idle EXCEPT !.pc = "called", !.form = f,
                             !.key = <<f.item_number, f.lot>>]]
  /\ calls' = calls + 1
  /\ response' = [response EXCEPT ![p] = "pending"]
  /\ UNCHANGED <<inventory, history, nextId, clock, notified, ghosts>>

\* SELECT finds no row: "ERROR: Lot does not exist." and conn.close().
RemoveNotFound(p) ==
  /\ tx[p].pc = "called"
  /\ tx[p].form.op = "REMOVE"
  /\ ~SelectRow(tx[p].key).found
  /\ tx' = [tx EXCEPT ![p] = Idle]
  /\ response' = [response EXCEPT ![p] = "NotFound"]
  /\ UNCHANGED <<inventory, history, nextId, clock, calls, notified, ghosts>>

\* SELECT finds less than asked for: "ERROR: Cannot remove ..." and conn.close().
RemoveInsufficient(p) ==
  /\ tx[p].pc = "called"
  /\ tx[p].form.op = "REMOVE"
  /\ SelectRow(tx[p].key).found
  /\ Insufficient(tx[p].form.quantity, SelectRow(tx[p].key).quantity)
  /\ tx' = [tx EXCEPT ![p] = Idle]
  /\ response' = [response EXCEPT ![p] = "InsufficientStock"]
  /\ UNCHANGED <<inventory, history, nextId, clock, calls, notified, ghosts>>

\* SELECT finds enough: the handler keeps the row it read and computes new_qty.
RemoveSelect(p) ==
  /\ tx[p].pc = "called"
  /\ tx[p].form.op = "REMOVE"
  /\ SelectRow(tx[p].key).found
  /\ ~Insufficient(tx[p].form.quantity, SelectRow(tx[p].key).quantity)
  /\ tx' = [tx EXCEPT ![p] =
              [@ EXCEPT !.pc = "selected", !.ts = clock,
                        !.row = SelectRow(tx[p].key),
                        !.new_qty = RemoveNewQty(SelectRow(tx[p].key).quantity,
                                                 tx[p].form.quantity)]]
  /\ clock' = clock + 1
  /\ UNCHANGED <<response, inventory, history, nextId, calls, notified,
                 ghosts>>

\* UPDATE inventory SET quantity = new_qty: waits for the row lock, then
\* overwrites the quantity of the latest committed version of the row.
RemoveUpdate(p) ==
  /\ tx[p].pc = "selected"
  /\ tx[p].form.op = "REMOVE"
  /\ RowLockFree(p, tx[p].key)
  /\ LET latest == inventory[tx[p].key] IN
       tx' = [tx EXCEPT ![p] =
                [@ EXCEPT !.pc = "updated",
                          !.write = [latest EXCEPT !.quantity = tx[p].new_qty],
                          !.prior = latest.quantity]]
  /\ UNCHANGED <<response, inventory, history, nextId, clock, calls,
                 notified, ghosts>>

\* Faulty variant of RemoveInsertHistory: the threshold test and the notifier
\* call sit inside the transaction, right after the history INSERT.
RemoveInsertHistoryThenNotify(p) ==
  /\ tx[p].pc = "updated"
  /\ tx[p].form.op = "REMOVE"
  /\ tx' = [tx EXCEPT ![p] =
              [@ EXCEPT !.pc = "logged",
                        !.hist = @ \cup
                          {HistoryRow(p, tx[p].key, -tx[p].form.quantity,
                                      tx[p].new_qty, tx[p].row.unit, "REMOVE")}]]
  /\ nextId' = nextId + 1
  /\ IF tx[p].new_qty < LOW_STOCK_THRESHOLD
       THEN \E o \in {"skipped", "sent", "failed"} :
              notified' = Append(notified,
                [item_number |-> tx[p].key[1], lot |-> tx[p].key[2],
                 remaining_qty |-> tx[p].new_qty, unit |-> tx[p].row.unit,
                 item_name |-> tx[p].row.name, supplier |-> tx[p].row.supplier,
                 triggered_by |-> p, outcome |-> o])
       ELSE notified' = notified
  /\ UNCHANGED <<response, inventory, history, clock, calls, ghosts>>

RemoveInsertHistory(p) ==
  /\ tx[p].pc = "updated"
  /\ tx[p].form.op = "REMOVE"
  /\ tx' = [tx EXCEPT ![p] =
              [@ EXCEPT !.pc = "logged",
                        !.hist = @ \cup
                          {HistoryRow(p, tx[p].key, -tx[p].form.quantity,
                                      tx[p].new_qty, tx[p].row.unit, "REMOVE")}]]
  /\ nextId' = nextId + 1
  /\ UNCHANGED <<response, inventory, history, clock, calls, notified,
                 ghosts>>

RemoveCommit(p) ==
  /\ tx[p].pc = "logged"
  /\ tx[p].form.op = "REMOVE"
  /\ CommitWrites(p)
  /\ sumRemove' = [sumRemove EXCEPT ![tx[p].key] = @ + tx[p].form.quantity]
  /\ okCalls' = [okCalls EXCEPT ![tx[p].key] = @ + 1]
  /\ tx' = [tx EXCEPT ![p] = [@ EXCEPT !.pc = "committed", !.write = NoRow]]
  /\ UNCHANGED <<response, nextId, clock, calls, notified, sumAdd>>

\* After the commit: the threshold test, the notifier call, the redirect.
RemoveLowStockCheck(p) ==
  /\ tx[p].pc = "committed"
  /\ tx[p].form.op = "REMOVE"
  /\ IF IsLowStock(tx[p].new_qty)
       THEN \E o \in EmailOutcomes :
              notified' = Append(notified,
                [item_number |-> tx[p].key[1], lot |-> tx[p].key[2],
                 remaining_qty |-> tx[p].new_qty, unit |-> tx[p].row.unit,
                 item_name |-> tx[p].row.name, supplier |-> tx[p].row.supplier,
                 triggered_by |-> p, outcome |-> o])
       ELSE notified' = notified
  /\ tx' = [tx EXCEPT ![p] = Idle]
  /\ response' = [response EXCEPT ![p] = "OK"]
  /\ UNCHANGED <<inventory, history, nextId, clock, calls, ghosts>>

----------------------------------------------------------------------------
\* /adjust

\* change = new_quantity - old_quantity
AdjustChange(new_quantity, old_quantity) == new_quantity - old_quantity

\* action_text = "ADJUST", or f"ADJUST ({description})" with a description
ActionText(description) ==
  IF description = "" THEN "ADJUST" ELSE "ADJUST (" \o description \o ")"

AdjustCall(p) ==
  /\ tx[p].pc = "idle"
  /\ calls < MaxCalls
  /\ \E f \in AdjustForms :
       tx' = [tx EXCEPT ![p] =
                [Idle EXCEPT !.pc = "called", !.form = f,
                             !.key = <<f.item_number, f.lot>>]]
  /\ calls' = calls + 1
  /\ response' = [response EXCEPT ![p] = "pending"]
  /\ UNCHANGED <<inventory, history, nextId, clock, notified, ghosts>>

\* SELECT finds no row: "ERROR: Item/Lot not found" and conn.close().
AdjustNotFound(p) ==
  /\ tx[p].pc = "called"
  /\ tx[p].form.op = "ADJUST"
  /\ ~SelectRow(tx[p].key).found
  /\ tx' = [tx EXCEPT ![p] = Idle]
  /\ response' = [response EXCEPT ![p] = "NotFound"]
  /\ UNCHANGED <<inventory, history, nextId, clock, calls, notified, ghosts>>

AdjustSelect(p) ==
  /\ tx[p].pc = "called"
  /\ tx[p].form.op = "ADJUST"
  /\ SelectRow(tx[p].key).found
  /\ tx' = [tx EXCEPT ![p] =
              [@ EXCEPT !.pc = "selected", !.ts = clock,
                        !.row = SelectRow(tx[p].key)]]
  /\ clock' = clock + 1
  /\ UNCHANGED <<response, inventory, history, nextId, calls, notified,
                 ghosts>>

\* UPDATE inventory SET quantity = new_quantity, unit = new_unit
AdjustUpdate(p) ==
  /\ tx[p].pc = "selected"
  /\ tx[p].form.op = "ADJUST"
  /\ RowLockFree(p, tx[p].key)
  /\ LET latest == inventory[tx[p].key] IN
       tx' = [tx EXCEPT ![p] =
                [@ EXCEPT !.pc = "updated",
                          !.write = [latest EXCEPT
                                       !.quantity = tx[p].form.quantity,
                                       !.unit = tx[p].form.unit],
                          !.prior = latest.quantity]]
  /\ UNCHANGED <<response, inventory, history, nextId, clock, calls,
                 notified, ghosts>>

AdjustInsertHistory(p) ==
  /\ tx[p].pc = "updated"
  /\ tx[p].form.op = "ADJUST"
  /\ tx' = [tx EXCEPT ![p] =
              [@ EXCEPT !.pc = "logged",
                        !.hist = @ \cup
                          {HistoryRow(p, tx[p].key,
                                      AdjustChange(tx[p].form.quantity,
                                                   tx[p].row.quantity),
                                      tx[p].form.quantity, tx[p].form.unit,
                                      ActionText(tx[p].form.description))}]]
  /\ nextId' = nextId + 1
  /\ UNCHANGED <<response, inventory, history, clock, calls, notified,
                 ghosts>>

AdjustCommit(p) ==
  /\ tx[p].pc = "logged"
  /\ tx[p].form.op = "ADJUST"
  /\ CommitWrites(p)
  /\ okCalls' = [okCalls EXCEPT ![tx[p].key] = @ + 1]
  /\ tx' = [tx EXCEPT ![p] = Idle]
  /\ response' = [response EXCEPT ![p] = "OK"]
  /\ UNCHANGED <<nextId, clock, calls, notified, sumAdd, sumRemove>>

----------------------------------------------------------------------------
\* Faulty variant of Rollback: the inventory write was made in autocommit
\* mode and
\* survives the failure.
RollbackKeepsInventory(p) ==
  /\ tx[p].pc \in {"selected", "updated", "readback", "logged"}
  /\ inventory' = IF tx[p].write.found
                    THEN [inventory EXCEPT ![tx[p].key] = tx[p].write]
                    ELSE inventory
  /\ tx' = [tx EXCEPT ![p] = Idle]
  /\ response' = [response EXCEPT ![p] = "PersistenceFailure"]
  /\ UNCHANGED <<history, nextId, clock, calls, notified, ghosts>>

\* A storage-layer error raised by a statement or by the commit of an open
\* transaction: the exception leaves the handler, the connection is dropped
\* without commit and PostgreSQL discards the transaction's writes.
Rollback(p) ==
  /\ tx[p].pc \in {"selected", "updated", "readback", "logged"}
  /\ tx' = [tx EXCEPT ![p] = Idle]
  /\ response' = [response EXCEPT ![p] = "PersistenceFailure"]
  /\ UNCHANGED <<inventory, history, nextId, clock, calls, notified, ghosts>>

----------------------------------------------------------------------------
\* Read path

\* /lot_info/<item>/<lot>
LotInfo(k) ==
  IF SelectRow(k).found
    THEN [found |-> TRUE, quantity |-> SelectRow(k).quantity,
          unit |-> SelectRow(k).unit]
    ELSE [found |-> FALSE]

\* ORDER BY timestamp DESC
RECURSIVE OrderByTimestampDesc(_)
OrderByTimestampDesc(rows) ==
  IF rows = {}
    THEN <<>>
    ELSE LET newest == CHOOSE h \in rows :
                         \A g \in rows : g.timestamp <= h.timestamp
         IN <<newest>> \o OrderByTimestampDesc(rows \ {newest})

\* /history: SELECT * FROM history ORDER BY timestamp DESC
ListAll == OrderByTimestampDesc(history)

\* /history?search=<item>: ... WHERE item_number = %s ORDER BY timestamp DESC
ListByItem(item_number) ==
  OrderByTimestampDesc({h \in history : h.item_number = item_number})

----------------------------------------------------------------------------
Add(p) ==
  \/ AddCall(p)
  \/ AddUpsert(p)
  \/ AddSelect(p)
  \/ AddInsertHistory(p)
  \/ AddCommit(p)

Remove(p) ==
  \/ RemoveCall(p)
  \/ RemoveNotFound(p)
  \/ RemoveInsufficient(p)
  \/ RemoveSelect(p)
  \/ RemoveUpdate(p)
  \/ RemoveInsertHistory(p)
  \/ RemoveCommit(p)
  \/ RemoveLowStockCheck(p)

Adjust(p) ==
  \/ AdjustCall(p)
  \/ AdjustNotFound(p)
  \/ AdjustSelect(p)
  \/ AdjustUpdate(p)
  \/ AdjustInsertHistory(p)
  \/ AdjustCommit(p)

Next == \E p \in Procs : Add(p) \/ Remove(p) \/ Adjust(p) \/ Rollback(p)

Spec == Init /\ [][Next]_vars

\* The steps a started request takes by itself once it is scheduled; a
\* statement waiting for a row lock is not enabled until the holder ends.
Progress(p) ==
  \/ AddUpsert(p) \/ AddSelect(p) \/ AddInsertHistory(p) \/ AddCommit(p)
  \/ RemoveNotFound(p) \/ RemoveInsufficient(p) \/ RemoveSelect(p)
  \/ RemoveUpdate(p) \/ RemoveInsertHistory(p) \/ RemoveCommit(p)
  \/ RemoveLowStockCheck(p)
  \/ AdjustNotFound(p) \/ AdjustSelect(p) \/ AdjustUpdate(p)
  \/ AdjustInsertHistory(p) \/ AdjustCommit(p)

\* A database that already holds one lot: the state left by the request
\* Add(A1, L1, "Gelatin", 60, "kg", "Acme", "2027-01") of session u1.
StockedForm ==
  [op |-> "ADD", item_number |-> "A1", lot |-> "L1", name |-> "Gelatin",
   quantity |-> 60, unit |-> "kg", supplier |-> "Acme", exp |-> "2027-01"]

InitStocked ==
  /\ inventory = [k \in Keys |-> IF k = <<"A1", "L1">>
                                   THEN UpsertRow(NoRow, StockedForm)
                                   ELSE NoRow]
  /\ history = { [id |-> 1, item_number |-> "A1", lot |-> "L1", change |-> 60,
                  remaining |-> 60, unit |-> "kg", action_type |-> "ADD",
                  username |-> "u1", timestamp |-> 1] }
  /\ nextId = 2
  /\ clock = 2
  /\ tx = [p \in Procs |-> Idle]
  /\ response = [p \in Procs |-> IF p = "u1" THEN "OK" ELSE "none"]
  /\ calls = 1
  /\ notified = <<>>
  /\ priorOf = 1 :> 0
  /\ sumAdd = [k \in Keys |-> IF k = <<"A1", "L1">> THEN 60 ELSE 0]
  /\ sumRemove = [k \in Keys |-> 0]
  /\ okCalls = [k \in Keys |-> IF k = <<"A1", "L1">> THEN 1 ELSE 0]

\* Bound on the number of requests in a behaviour of the fair specification,
\* the stocking request included.
MaxLiveCalls == 3

\* The requests of the fair specification carry the quantities the operations
\* are documented for (Add and Adjust >= 0, Remove > 0); which statement waits
\* for which lock does not depend on the quantities.
DocumentedInput(f) ==
  \/ f.op = "none"
  \/ f.op \in {"ADD", "ADJUST"} /\ f.quantity >= 0
  \/ f.op = "REMOVE" /\ f.quantity > 0

NextLive ==
  /\ Next
  /\ calls' <= MaxLiveCalls
  /\ \A p \in Procs : DocumentedInput(tx'[p].form)

\* Every request thread keeps being scheduled; new requests and storage
\* failures are not obliged to happen.
SpecFair ==
  /\ InitStocked
  /\ [][NextLive]_vars
  /\ \A p \in Procs : WF_vars(Progress(p))

\* Requests served one at a time: a request starts only when no other is open.
NoOtherOpen(p) == \A q \in Procs \ {p} : tx[q].pc = "idle"

NextSeq == \E p \in Procs : NoOtherOpen(p) /\ (Add(p) \/ Remove(p) \/ Rollback(p))

SpecSeq == Init /\ [][NextSeq]_vars

----------------------------------------------------------------------------
\* Properties

\* Committed history rows of a key, and the one with the highest id.
RowsFor(k) == {h \in history : h.item_number = k[1] /\ h.lot = k[2]}

Latest(k) == CHOOSE h \in RowsFor(k) : \A g \in RowsFor(k) : g.id <= h.id

KeyOf(p) == tx[p].key

\* C1 - Non-negative stock: in every reachable state every inventory record
\* has quantity >= 0, whatever numeric inputs Add, Remove and Adjust accepted.
NonNegativeStock ==
  \A k \in Keys : inventory[k].found => inventory[k].quantity >= 0

\* C2 - No lost update between concurrent Removes: when two Removes of the
\* same key have both read the same quantity and both succeeded, the two
\* deltas together do not exceed that quantity and the committed quantity is
\* that quantity minus both deltas.
NoLostUpdateBetweenRemoves ==
  \A p, q \in Procs :
    ( /\ p # q
      /\ tx[p].pc = "committed" /\ tx[q].pc = "committed"
      /\ tx[p].form.op = "REMOVE" /\ tx[q].form.op = "REMOVE"
      /\ KeyOf(p) = KeyOf(q)
      /\ tx[p].row.quantity = tx[q].row.quantity )
    => /\ tx[p].form.quantity + tx[q].form.quantity <= tx[p].row.quantity
       /\ inventory[KeyOf(p)].quantity =
            tx[p].row.quantity - tx[p].form.quantity - tx[q].form.quantity

\* C7 - Ledger chain: for every ledger entry, change + prior quantity =
\* remaining, the prior quantity being the key's quantity immediately before
\* the operation's inventory write took effect (0 if the key was absent).
LedgerChain ==
  \A h \in history : h.change + priorOf[h.id] = h.remaining

\* C9 - Adjust with new_quantity < 0 is rejected: no step of such a request
\* changes the inventory table or appends a ledger entry.
NegativeAdjustRejected ==
  [][ \A p \in Procs :
        ( /\ tx[p].form.op = "ADJUST"
          /\ tx[p].form.quantity < 0
          /\ tx'[p] # tx[p] )
        => /\ inventory' = inventory
           /\ history' = history
           /\ response'[p] # "OK" ]_vars

\* A history id that was drawn from the sequence by a transaction that has
\* since been rolled back: no committed and no pending row carries it.
RolledBackId(i) ==
  /\ \A h \in history : h.id # i
  /\ \A p \in Procs : \A h \in tx[p].hist : h.id # i

\* C3 - Both-or-neither: the committed inventory table and the committed
\* ledger only ever change together, by one ledger entry and the row of that
\* entry's key, whose quantity is the entry's remaining; in particular a
\* request that fails after its inventory write and before its commit changes
\* neither.
BothOrNeither ==
  [][ (inventory' # inventory \/ history' # history)
        => \E h \in history' \ history :
             /\ history' = history \cup {h}
             /\ inventory'[<<h.item_number, h.lot>>].found
             /\ inventory'[<<h.item_number, h.lot>>].quantity = h.remaining
             /\ \A k \in Keys \ {<<h.item_number, h.lot>>} :
                  inventory'[k] = inventory[k] ]_vars

\* An Add wrote the inventory row and its history row, then failed before the
\* commit: nothing of it is visible.
FailedAfterWrites ==
  /\ \E p \in Procs : response[p] = "PersistenceFailure"
  /\ \E i \in 1..(nextId - 1) : RolledBackId(i)
  /\ history = {}
  /\ \A k \in Keys : ~inventory[k].found

\* C4 - Conservation: with Add and Remove requests served one after the
\* other, a key's quantity (0 while absent) equals the sum of the deltas of
\* its Adds minus the sum of the deltas of its successful Removes, and equals
\* the remaining of the key's most recent ledger entry.
Conservation ==
  \A k \in Keys :
    LET q == IF inventory[k].found THEN inventory[k].quantity ELSE 0 IN
      /\ q = sumAdd[k] - sumRemove[k]
      /\ RowsFor(k) # {} => Latest(k).remaining = q

\* Two Adds and a successful Remove on one key.
ConservationCase ==
  \E k \in Keys :
    /\ sumAdd[k] = 120
    /\ sumRemove[k] = 50
    /\ inventory[k].quantity = 70
    /\ \A p \in Procs : tx[p].pc = "idle"

\* C5 - Ledger completeness: in every committed state the number of ledger
\* entries of a key equals the number of successful mutating requests on it.
LedgerCompleteness ==
  \A k \in Keys : Cardinality(RowsFor(k)) = okCalls[k]

\* Three successful requests on one key, of all three kinds.
ThreeEntries ==
  \E k \in Keys :
    /\ okCalls[k] = 3
    /\ \E h \in RowsFor(k) : h.action_type = "REMOVE"
    /\ \E h \in RowsFor(k) : h.action_type = "ADJUST (recount)"

\* C6 - Read-after-write: for each key with a ledger entry, LotInfo returns
\* the remaining of the key's entry with the highest id.
ReadAfterWrite ==
  \A k \in Keys :
    RowsFor(k) # {} =>
      /\ LotInfo(k).found
      /\ LotInfo(k).quantity = Latest(k).remaining

\* The latest entry of a key was written by a request that overlapped another
\* mutation of the key (the quantity it had read was no longer current).
LatestWrittenUnderOverlap ==
  \E k \in Keys :
    /\ Cardinality(RowsFor(k)) >= 2
    /\ Latest(k).change + priorOf[Latest(k).id] # Latest(k).remaining
    /\ LotInfo(k).quantity = Latest(k).remaining

\* The SELECT of the request will find no row (Remove, Adjust) or less than
\* the Remove asks for.
RejectCase(p) ==
  /\ tx[p].pc = "called"
  /\ \/ /\ tx[p].form.op \in {"REMOVE", "ADJUST"}
        /\ ~inventory[KeyOf(p)].found
     \/ /\ tx[p].form.op = "REMOVE"
        /\ inventory[KeyOf(p)].found
        /\ tx[p].form.quantity > inventory[KeyOf(p)].quantity

\* C8 - Rejected operations change nothing: the step of a Remove or Adjust
\* that finds no record, or of a Remove that finds less than its delta, ends
\* the request as NotFound / InsufficientStock, leaves the inventory table,
\* the ledger and the notifier untouched and leaves no pending write behind.
RejectedChangesNothing ==
  [][ \A p \in Procs :
        (RejectCase(p) /\ tx'[p] # tx[p])
        => /\ tx'[p] = Idle
           /\ response'[p] \in {"NotFound", "InsufficientStock"}
           /\ UNCHANGED <<inventory, history, notified>> ]_vars

\* A Remove was rejected for insufficient stock on a stocked key.
RejectedOnStockedKey ==
  \E p \in Procs :
    /\ response[p] = "InsufficientStock"
    /\ history # {}
    /\ \E k \in Keys : inventory[k].found /\ inventory[k].quantity > 0

\* The step that ends a committed Remove (threshold test, notifier, redirect).
Finishing(p) == tx[p].pc = "committed" /\ tx'[p].pc # "committed"

\* C10 - Low-stock trigger: a successful Remove calls the notifier exactly
\* once, with the post-removal quantity, when that quantity is strictly below
\* the threshold, and not at all otherwise; no other step calls the notifier.
LowStockTrigger ==
  [][ /\ \A p \in Procs :
           Finishing(p) =>
             LET e == CHOOSE h \in tx[p].hist : TRUE IN
               /\ e \in history
               /\ IF e.remaining < LOW_STOCK_THRESHOLD
                    THEN /\ Len(notified') = Len(notified) + 1
                         /\ SubSeq(notified', 1, Len(notified)) = notified
                         /\ notified'[Len(notified')].remaining_qty = e.remaining
                         /\ notified'[Len(notified')].item_number = e.item_number
                         /\ notified'[Len(notified')].lot = e.lot
                    ELSE notified' = notified
      /\ (\A p \in Procs : ~Finishing(p)) => notified' = notified ]_vars

\* One Remove ended exactly at the threshold and one below it, and the
\* notifier was called once.
NotifiedOnceBelowThreshold ==
  /\ \A p \in Procs : tx[p].pc = "idle"
  /\ \E h \in history :
       h.action_type = "REMOVE" /\ h.remaining = LOW_STOCK_THRESHOLD
  /\ \E h \in history :
       h.action_type = "REMOVE" /\ h.remaining < LOW_STOCK_THRESHOLD
  /\ Len(notified) = 1
  /\ notified[1].remaining_qty < LOW_STOCK_THRESHOLD

\* C11 - Notification is outside the transaction: whenever the notifier is
\* called, the Remove that triggers it has already committed its ledger entry
\* and its inventory write, and the call - skipped, delivered or failed -
\* changes neither the inventory table nor the ledger.
NotifyAfterCommit ==
  [][ notified' # notified
        => /\ Len(notified') = Len(notified) + 1
           /\ LET n == notified'[Len(notified')] IN
                \E h \in history :
                  /\ h.action_type = "REMOVE"
                  /\ h.item_number = n.item_number /\ h.lot = n.lot
                  /\ h.username = n.triggered_by
                  /\ h.remaining = n.remaining_qty
           /\ inventory' = inventory
           /\ history' = history ]_vars

\* The notifier failed for a Remove whose entry and quantity stay committed.
NotifierFailedAfterCommit ==
  /\ Len(notified) = 1
  /\ notified[1].outcome = "failed"
  /\ \E h \in history :
       /\ h.action_type = "REMOVE"
       /\ h.remaining = notified[1].remaining_qty
       /\ inventory[<<h.item_number, h.lot>>].quantity = h.remaining
  /\ \A p \in Procs : tx[p].pc = "idle"

\* C12 (as stated) - Append-only ledger: every committed entry stays in the
\* ledger unchanged, and the ledger only gains entries whose sequence id is
\* higher than the id of every entry already committed.
AppendOnlyHigherIds ==
  [][ /\ history \subseteq history'
      /\ \A h \in history' \ history : \A g \in history : h.id > g.id ]_vars

\* C12 (amended) - Append-only ledger: every committed entry stays in the
\* ledger unchanged, and the ledger only gains entries whose sequence id is
\* new and higher than the id of every committed entry of the same key.
AppendOnly ==
  [][ /\ history \subseteq history'
      /\ \A h \in history' \ history :
           /\ \A g \in history : h.id # g.id
           /\ \A g \in RowsFor(<<h.item_number, h.lot>>) : h.id > g.id ]_vars

\* The ledger has grown to two entries of one key, with an entry of another
\* key taking the sequence id between theirs.
LedgerGrown ==
  \E k \in Keys :
    /\ Cardinality(RowsFor(k)) = 2
    /\ \E h \in history \ RowsFor(k) :
         \E g1, g2 \in RowsFor(k) : g1.id < h.id /\ h.id < g2.id

\* A listing shows the entries in reverse insertion order.
NewestIdFirst(list) ==
  \A i, j \in 1..Len(list) : i < j => list[i].id > list[j].id

\* C13 - Ledger time order: of any two ledger entries the one with the higher
\* sequence id never has the earlier timestamp, and ListAll and ListByItem
\* list the entries in reverse insertion order.
LedgerTimeOrder ==
  /\ \A h, g \in history : h.id > g.id => h.timestamp >= g.timestamp
  /\ NewestIdFirst(ListAll)
  /\ \A k \in Keys : NewestIdFirst(ListByItem(k[1]))

\* C14 - No operation blocks indefinitely: under fair scheduling every
\* started request eventually ends (committed, rejected or failed).
EveryRequestEnds ==
  \A p \in Procs : (tx[p].pc # "idle") ~> (tx[p].pc = "idle")

\* An UPDATE is waiting for the row lock of another open transaction.
WaitingForRowLock ==
  \E p, q \in Procs :
    /\ p # q
    /\ tx[p].pc = "selected"
    /\ HoldsLock(q, KeyOf(p))

\* The step that commits an Add.
AddCommitting(p) ==
  /\ tx[p].form.op = "ADD"
  /\ tx[p].pc = "logged"
  /\ response'[p] = "OK"

\* C15 - Add is an upsert-merge: a committed Add leaves the key's record with
\* quantity = quantity_delta if the key was absent and old quantity +
\* quantity_delta if it was present - whatever was committed on the key while
\* the Add was open - with name, unit, supplier and expiration as supplied,
\* and appends one ADD entry with change = quantity_delta and remaining = the
\* resulting quantity.
AddIsUpsertMerge ==
  [][ \A p \in Procs :
        AddCommitting(p) =>
          LET k == KeyOf(p)
              f == tx[p].form
              old == inventory[k]
              new == inventory'[k]
          IN /\ new.found
             /\ new.quantity =
                  IF old.found THEN old.quantity + f.quantity ELSE f.quantity
             /\ new.name = f.name /\ new.unit = f.unit
             /\ new.supplier = f.supplier /\ new.exp = f.exp
             /\ \E h \in history' \ history :
                  /\ history' = history \cup {h}
                  /\ h.item_number = k[1] /\ h.lot = k[2]
                  /\ h.action_type = "ADD"
                  /\ h.change = f.quantity
                  /\ h.remaining = new.quantity ]_vars

\* Two Adds of one key were open at the same time, the second waiting for the
\* first; the first is about to commit a merged quantity and new descriptive
\* fields onto an existing record.
ConcurrentAddsOnRecord ==
  \E p, q \in Procs :
    /\ p # q
    /\ tx[p].form.op = "ADD" /\ tx[p].pc = "logged"
    /\ tx[q].form.op = "ADD" /\ tx[q].pc = "called" /\ KeyOf(q) = KeyOf(p)
    /\ inventory[KeyOf(p)].found
    /\ tx[p].write.quantity = inventory[KeyOf(p)].quantity + tx[p].form.quantity
    /\ tx[p].write.name # inventory[KeyOf(p)].name

\* The step that commits a Remove.
RemoveCommitting(p) ==
  /\ tx[p].form.op = "REMOVE"
  /\ tx[p].pc = "logged"
  /\ tx'[p].pc = "committed"

\* C16 - Remove only takes stock out: a Remove that commits has
\* quantity_delta > 0, leaves the record's quantity lower than before by
\* exactly quantity_delta, and appends a REMOVE entry with a negative change.
RemoveOnlyTakesOut ==
  [][ \A p \in Procs :
        RemoveCommitting(p) =>
          /\ tx[p].form.quantity > 0
          /\ inventory'[KeyOf(p)].quantity =
               inventory[KeyOf(p)].quantity - tx[p].form.quantity
          /\ inventory'[KeyOf(p)].quantity < inventory[KeyOf(p)].quantity
          /\ \A h \in history' \ history :
               h.action_type = "REMOVE" /\ h.change < 0 ]_vars

====
